---- MODULE Spec2Model ----
(***************************************************************************)
(* kubectl plugins edit-deploy and edit-cr: fetch - mutate - update under  *)
(* optimistic concurrency (retry.RetryOnConflict with retry.DefaultRetry). *)
(*                                                                         *)
(* The cluster store holds one Deployment and one ClusterRole; every write *)
(* to an object gives it a new resourceVersion, and an update carrying a   *)
(* resourceVersion other than the stored one is answered with Conflict.    *)
(* Besides the tool, other writers (controllers, other users) write and    *)
(* delete the object the invocation names.                                 *)
(***************************************************************************)
EXTENDS Integers, Sequences, FiniteSets, TLC

\* ------------------------------------------------------------------ bounds
\* Largest value of replicas / revisionHistoryLimit in the store and on the
\* command line.
MaxVal == 2
\* Number of writes other writers make to the object during one run.
MaxWrites == 5
\* Longest rule sequence another writer builds in a ClusterRole.
MaxRules == 2

\* ------------------------------------------------------- program constants
\* A retry budget one call too long.
Steps_Six == 5 + 1

\* retry.DefaultRetry: wait.Backoff{Steps: 5, ...}
Steps == 5

Procs == {1, 2}

\* --------------------------------------------------------------- strings
\* A flag value is a sequence of one-character strings.
Comma == ","

\* strings.Split(s, ","): the pieces between the commas; Split("") = [""].
RECURSIVE SplitFrom(_, _, _)
SplitFrom(s, i, cur) ==
    IF i > Len(s) THEN <<cur>>
    ELSE IF s[i] = Comma THEN <<cur>> \o SplitFrom(s, i + 1, <<>>)
    ELSE SplitFrom(s, i + 1, Append(cur, s[i]))

Split(s) == SplitFrom(s, 1, <<>>)

\* ----------------------------------------------------------------- store
VARIABLES
    deployment,   \* the stored Deployment
    clusterRole,  \* the stored ClusterRole
    writes        \* writes made by other writers so far

\* --------------------------------------------------- one tool invocation
VARIABLES
    cmdline,      \* what the caller typed: command, positional args, flags
    o,            \* the EditDeployOptions struct
    pc,           \* where RunE stands
    attempt,      \* the call of the retried function in progress (1..Steps)
    result,       \* the retried function's local: the object its Get returned
    outcome,      \* what the invocation reported, <<>> while it runs
    hist          \* history of the invocation's requests (for the properties)

vars == <<deployment, clusterRole, writes, cmdline, o, pc, attempt, result,
          outcome, hist>>

\* ---------------------------------------------------------------- objects
\* A Deployment: spec.replicas, spec.revisionHistoryLimit, one more spec
\* field the tool never assigns (spec.paused), metadata.resourceVersion and
\* metadata.namespace.
Deployments ==
    [exists : {TRUE}, resourceVersion : {0}, replicas : 0..MaxVal,
     revisionHistoryLimit : 0..MaxVal, paused : {FALSE}, namespace : {"team-a"}]

\* A PolicyRule as another writer adds it.
OtherRule == [Verbs |-> <<<<"w">>>>, Resources |-> <<<<"s">>>>, APIGroups |-> <<<<>>>>]

ClusterRoles ==
    [exists : {TRUE}, resourceVersion : {0}, Rules : {<<>>, <<OtherRule>>}]

NoDeployment ==
    [exists |-> FALSE, resourceVersion |-> 0, replicas |-> 0,
     revisionHistoryLimit |-> 0, paused |-> FALSE, namespace |-> ""]

NoClusterRole == [exists |-> FALSE, resourceVersion |-> 0, Rules |-> <<>>]

\* The zero value of the variable that holds a fetched object.
NoObject == [exists |-> FALSE, resourceVersion |-> 0]

\* ------------------------------------------------------------ command line
\* A flag is <<>> when the caller did not pass it and <<v>> when passed.
\* namespace is the value of --namespace ("" when not passed), context the
\* namespace of the current context of the kubeconfig ("" when it has none),
\* build the source file the binary was built from.
NotPassed == <<>>

IntFlags == {NotPassed} \cup {<<n>> : n \in -1..MaxVal}

ArgLists == {<<>>, <<"">>, <<"web">>, <<"web", "extra">>}

VerbFlags == {<<>>, <<"g">>, <<"g", Comma, "l">>}
ResourceFlags == {<<>>, <<"p">>}
GroupFlags == {<<>>, <<"r">>}

DeployCmdLines ==
    [cmd : {"edit-deploy"}, args : ArgLists, replicas : IntFlags, rhl : IntFlags,
     verbs : {NotPassed}, resources : {NotPassed}, groups : {NotPassed},
     namespace : {""}, context : {"team-a"}, build : {"edit_deploy"}]

CrCmdLines ==
    [cmd : {"edit-cr"}, args : ArgLists, replicas : {NotPassed}, rhl : {NotPassed},
     verbs : VerbFlags, resources : ResourceFlags, groups : GroupFlags,
     namespace : {""}, context : {"team-a"}, build : {"edit_cr"}]

NoCmdLine ==
    [cmd |-> "none", args |-> <<>>, replicas |-> NotPassed, rhl |-> NotPassed,
     verbs |-> NotPassed, resources |-> NotPassed, groups |-> NotPassed,
     namespace |-> "", context |-> "", build |-> "none"]

\* cmd.Flags().Int32Var(&o.newReplicas, "replicas", o.newReplicas, ...): the
\* default is the zero value of the field.
ReplicasFlagValue(c) == IF c.replicas = NotPassed THEN 0 ELSE c.replicas[1]

\* cmd.Flags().Int32Var(&o.newRhl, "rhl", -1, ...); in part_000 the default
\* is o.newRhl, the zero value of the field.
RhlFlagValue(c) ==
    IF c.rhl # NotPassed THEN c.rhl[1]
    ELSE IF c.build = "part_000" THEN 0 ELSE -1

\* The options struct NewCmdEdit hands to RunE after the flags are parsed.
NewCmdEdit(c) ==
    [args |-> <<>>, deploymentName |-> "", clusterRoleName |-> "",
     deploymentsClient |-> <<>>,
     newReplicas |-> ReplicasFlagValue(c), newRhl |-> RhlFlagValue(c),
     newVerbs |-> c.verbs, newResources |-> c.resources, newApiGroups |-> c.groups]

\* ------------------------------------------------------------- outcomes
NoOutcome == <<>>
UpdatedDeployment == <<"Updated Deployment..">>
UpdatedClusterRoles == <<"Updated ClusterRoles..">>

NoHist ==
    [gets |-> 0, updates |-> 0, accepted |-> 0, conflicts |-> 0, landed |-> 0,
     fetched |-> <<>>, sent |-> <<>>, before |-> <<>>, after |-> <<>>,
     namespaces |-> {}]

\* ----------------------------------------------------------------- Init
\* The invocation names one object; the object of the other kind plays no part.
Init ==
    /\ \E c \in DeployCmdLines \cup CrCmdLines :
          /\ cmdline = [p \in Procs |-> IF p = 1 THEN c ELSE NoCmdLine]
          /\ IF c.cmd = "edit-deploy"
                THEN /\ deployment \in Deployments \cup {NoDeployment}
                     /\ clusterRole = NoClusterRole
                ELSE /\ deployment = NoDeployment
                     /\ clusterRole \in ClusterRoles \cup {NoClusterRole}
    /\ writes = 0
    /\ o = [p \in Procs |-> NewCmdEdit(cmdline[p])]
    /\ pc = [p \in Procs |-> IF p = 1 THEN "Complete" ELSE "idle"]
    /\ attempt = [p \in Procs |-> 0]
    /\ result = [p \in Procs |-> NoObject]
    /\ outcome = [p \in Procs |-> NoOutcome]
    /\ hist = [p \in Procs |-> NoHist]

\* ---------------------------------------------------------------- store
\* The Deployment a client bound to namespace ns reaches.
DeploymentIn(ns) == IF deployment.namespace = ns THEN deployment ELSE NoDeployment

\* userSpecifiedNamespace of part_000: the flag, else the context's namespace.
FlagOrContext(c) == IF c.namespace # "" THEN c.namespace ELSE c.context

\* userSpecifiedNamespace of edit_deploy: as above, else "Default".
UserSpecifiedNamespace(c) ==
    IF c.build = "part_000" THEN FlagOrContext(c)
    ELSE IF FlagOrContext(c) # "" THEN FlagOrContext(c) ELSE "Default"

\* The namespace of the client Run uses: o.deploymentsClient of Complete, in
\* part_000 a client Run builds again in the same way.
RunNamespace(p) ==
    IF cmdline[p].build = "part_000" THEN FlagOrContext(cmdline[p])
    ELSE o[p].deploymentsClient[1]

Target(p) ==
    IF cmdline[p].cmd = "edit-deploy" THEN DeploymentIn(RunNamespace(p))
                                      ELSE clusterRole

Running(p) == pc[p] \notin {"idle", "done"}

\* Get: the stored object, NotFound when there is none; any request may
\* also fail in transport or at the server ("Other").
GetResponses(stored) ==
    (IF stored.exists THEN {[err |-> "nil", obj |-> stored]}
                      ELSE {[err |-> "NotFound", obj |-> stored]})
    \cup {[err |-> "Other", obj |-> stored]}

\* An Update that is applied whatever resourceVersion it carries.
UpdateVerdict_NoCheck(stored, obj) ==
    IF ~stored.exists THEN "NotFound" ELSE "nil"

\* Update: NotFound when the object is gone, Conflict when the request does
\* not carry the stored resourceVersion, else the write is applied.
UpdateVerdict(stored, obj) ==
    IF ~stored.exists THEN "NotFound"
    ELSE IF obj.resourceVersion # stored.resourceVersion THEN "Conflict"
    ELSE "nil"

UpdateResponses(stored, obj) == {UpdateVerdict(stored, obj), "Other"}

\* A write stores the object under a new resourceVersion.
Written(stored, obj) ==
    [obj EXCEPT !.resourceVersion = stored.resourceVersion + 1]

\* Another write landed: every running invocation's fetch is now stale.
Landed(h) == [p \in Procs |-> [h[p] EXCEPT !.landed = @ + 1]]

\* ------------------------------------------------------------- the tool
Finish(p, out) ==
    /\ pc' = [pc EXCEPT ![p] = "done"]
    /\ outcome' = [outcome EXCEPT ![p] = out]

\* Complete that fills in newReplicas only.
CompletedDeploy_NoRhl(opts, res) ==
    [opts EXCEPT
        !.newReplicas = IF opts.newReplicas <= 0 THEN res.replicas ELSE @]

\* Complete of edit-deploy after its Get: the result fills in the fields the
\* flags left at a value that is not valid.
CompletedDeploy(opts, res) ==
    [opts EXCEPT
        !.newReplicas = IF opts.newReplicas <= 0 THEN res.replicas ELSE @,
        !.newRhl = IF opts.newRhl < 0 THEN res.revisionHistoryLimit ELSE @]

\* The flags flag.Visit visits: those set in the standard library's
\* flag.CommandLine. main replaces it by a new FlagSet that is never parsed,
\* and the flags of the command are registered with cobra's flag set.
VisitedFlags == {}

isFlagPassed(name) == name \in VisitedFlags

\* Complete of part_000 after its Get.
CompletedDeployFlagPassed(opts, res) ==
    [opts EXCEPT
        !.newReplicas = IF ~isFlagPassed("replicas") THEN res.replicas ELSE @,
        !.newRhl = IF ~isFlagPassed("rhl") THEN res.revisionHistoryLimit ELSE @]

WithArgs(opts, args, field) ==
    [opts EXCEPT !.args = args,
                 ![field] = IF Len(args) > 0 THEN args[1] ELSE @]

\* Complete of edit-deploy: the name check, then (client construction and
\* namespace choice, which issue no request) a Get of the named Deployment
\* whose error is returned as it is.
CompleteDeploy(p) ==
    /\ pc[p] = "Complete"
    /\ cmdline[p].cmd = "edit-deploy"
    /\ LET o1 == WithArgs(o[p], cmdline[p].args, "deploymentName")
           ns == UserSpecifiedNamespace(cmdline[p])
           o2 == [o1 EXCEPT !.deploymentsClient = <<ns>>]
       IN
       IF o1.deploymentName = ""
       THEN /\ o' = [o EXCEPT ![p] = o1]
            /\ Finish(p, <<"deployment name not specified">>)
            /\ UNCHANGED <<result, hist>>
       ELSE \E r \in GetResponses(DeploymentIn(ns)) :
            /\ hist' = [hist EXCEPT ![p].gets = @ + 1, ![p].landed = 0,
                                     ![p].namespaces = @ \cup {ns}]
            /\ IF r.err # "nil"
               THEN /\ o' = [o EXCEPT ![p] = o2]
                    /\ Finish(p, <<r.err>>)
                    /\ UNCHANGED result
               ELSE /\ o' = [o EXCEPT ![p] =
                            IF cmdline[p].build = "part_000"
                               THEN CompletedDeployFlagPassed(o2, r.obj)
                               ELSE CompletedDeploy(o2, r.obj)]
                    /\ pc' = [pc EXCEPT ![p] = "Validate"]
                    /\ UNCHANGED <<result, outcome>>
    /\ UNCHANGED <<deployment, clusterRole, writes, cmdline, attempt>>

\* Complete of edit-cr: name check and client construction, no request.
CompleteCr(p) ==
    /\ pc[p] = "Complete"
    /\ cmdline[p].cmd = "edit-cr"
    /\ LET o1 == WithArgs(o[p], cmdline[p].args, "clusterRoleName") IN
       /\ o' = [o EXCEPT ![p] = o1]
       /\ IF o1.clusterRoleName = ""
          THEN Finish(p, <<"ClusterRole name not specified">>)
          ELSE pc' = [pc EXCEPT ![p] = "Validate"] /\ UNCHANGED outcome
    /\ UNCHANGED <<deployment, clusterRole, writes, cmdline, attempt, result, hist>>

\* Validate: the error it returns, <<>> for nil.
ValidateDeploy(opts) ==
    IF Len(opts.args) # 1 THEN <<"only one argument is allowed">>
    ELSE IF opts.newReplicas <= 0 THEN <<"invalid number of replicas">>
    ELSE IF opts.newRhl < 0 THEN <<"invalid value of RevisionHistoryLimit">>
    ELSE <<>>

\* Validate without the check of the verbs.
ValidateCr_NoVerbs(opts) ==
    IF Len(opts.args) # 1 THEN <<"only one argument is allowed">>
    ELSE IF Len(opts.newResources) = 0 THEN <<"resource feild is empty">>
    ELSE <<>>

ValidateCr(opts) ==
    IF Len(opts.args) # 1 THEN <<"only one argument is allowed">>
    ELSE IF Len(opts.newVerbs) = 0 THEN <<"verb feild is empty">>
    ELSE IF Len(opts.newResources) = 0 THEN <<"resource feild is empty">>
    ELSE <<>>

Validate(p) ==
    /\ pc[p] = "Validate"
    /\ LET err == IF cmdline[p].cmd = "edit-deploy" THEN ValidateDeploy(o[p])
                                                    ELSE ValidateCr(o[p]) IN
       IF err # <<>>
       THEN Finish(p, err) /\ UNCHANGED attempt
       ELSE /\ pc' = [pc EXCEPT ![p] = "Get"]
            /\ attempt' = [attempt EXCEPT ![p] = 1]
            /\ UNCHANGED outcome
    /\ UNCHANGED <<deployment, clusterRole, writes, cmdline, o, result, hist>>

\* ------------------------------------------------------------------ Run
\* The flag added to the fetched replicas instead of assigned.
MutateDeployment_Add(res, opts) ==
    [res EXCEPT !.replicas = @ + opts.newReplicas,
                !.revisionHistoryLimit = opts.newRhl]

\* The assignments of the retried function of edit-deploy.
MutateDeployment(res, opts) ==
    [res EXCEPT !.replicas = opts.newReplicas,
                !.revisionHistoryLimit = opts.newRhl]

\* The assignment of the retried function of part_000.
MutateDeploymentReplicas(res, opts) ==
    [res EXCEPT !.replicas = opts.newReplicas]

\* v1.PolicyRule{Verbs: listVerbs, Resources: listResources, APIGroups: listApiGroups}
NewRule(opts) ==
    [Verbs |-> Split(opts.newVerbs), Resources |-> Split(opts.newResources),
     APIGroups |-> Split(opts.newApiGroups)]

\* The rules replaced by the new rule instead of extended by it.
AppendRule_Replace(rules, rule) == <<rule>>

\* A rule the sequence already holds is not added again.
AppendRule_Dedup(rules, rule) ==
    IF \E i \in DOMAIN rules : rules[i] = rule THEN rules ELSE Append(rules, rule)

AppendRule(rules, rule) == Append(rules, rule)

\* The assignment of the retried function of edit-cr.
MutateClusterRole(res, opts) ==
    [res EXCEPT !.Rules = AppendRule(@, NewRule(opts))]

\* A candidate built without the fetched object's resourceVersion.
Mutate_Unversioned(c, res, opts) ==
    [(IF c = "edit-deploy" THEN MutateDeployment(res, opts)
                           ELSE MutateClusterRole(res, opts))
        EXCEPT !.resourceVersion = 0]

Mutate(c, res, opts) ==
    IF c = "edit-deploy" THEN MutateDeployment(res, opts)
                         ELSE MutateClusterRole(res, opts)

\* The error the retried function returns when its Get fails.
GetFailed(err) == <<"failed to get latest version fo Deployment", err>>

\* No error is taken for a conflict.
Retriable_Never(err) == FALSE

\* Every error is retried.
Retriable_Always(err) == TRUE

\* errors.IsConflict: the error is the store's Conflict status itself.
Retriable(err) == err = <<"Conflict">>

\* retryErr dropped: the confirmation line whatever happened.
RunReturn_Swallow(c, retryErr) ==
    IF c = "edit-deploy" THEN UpdatedDeployment ELSE UpdatedClusterRoles

\* What Run returns from retryErr: the error, or nil after the confirmation line.
RunReturn(c, retryErr) ==
    IF retryErr # <<>> THEN <<"update failed">> \o retryErr
    ELSE IF c = "edit-deploy" THEN UpdatedDeployment ELSE UpdatedClusterRoles

\* retry.RetryOnConflict after a call of the retried function returned err:
\* nil ends the loop, a conflict leads to the next call while steps remain,
\* anything else (and the last conflict) is returned.
AfterFn(p, err) ==
    IF err # <<>> /\ Retriable(err) /\ attempt[p] < Steps
    THEN /\ pc' = [pc EXCEPT ![p] = "Get"]
         /\ attempt' = [attempt EXCEPT ![p] = @ + 1]
         /\ UNCHANGED outcome
    ELSE /\ Finish(p, RunReturn(cmdline[p].cmd, err))
         /\ UNCHANGED attempt

\* The namespace a request of Run names (none for a ClusterRole).
Requested(p) ==
    IF cmdline[p].cmd = "edit-deploy" THEN {RunNamespace(p)} ELSE {}

RunGet(p) ==
    /\ pc[p] = "Get"
    /\ \E r \in GetResponses(Target(p)) :
          IF r.err # "nil"
          THEN /\ hist' = [hist EXCEPT ![p].gets = @ + 1, ![p].landed = 0,
                                        ![p].fetched = <<>>, ![p].sent = <<>>,
                                        ![p].namespaces = @ \cup Requested(p)]
               /\ AfterFn(p, GetFailed(r.err))
               /\ UNCHANGED result
          ELSE /\ hist' = [hist EXCEPT
                    ![p].gets = @ + 1, ![p].landed = 0,
                    ![p].sent = <<>>,
                    ![p].namespaces = @ \cup Requested(p),
                    ![p].fetched = <<[attempt |-> attempt[p],
                                      resourceVersion |-> r.obj.resourceVersion]>>]
               /\ result' = [result EXCEPT ![p] = r.obj]
               /\ pc' = [pc EXCEPT ![p] = "Update"]
               /\ UNCHANGED <<attempt, outcome>>
    /\ UNCHANGED <<deployment, clusterRole, writes, cmdline, o>>

RunUpdate(p) ==
    /\ pc[p] = "Update"
    /\ LET c == cmdline[p].cmd
           stored == Target(p)
           obj == IF cmdline[p].build = "part_000"
                     THEN MutateDeploymentReplicas(result[p], o[p])
                     ELSE Mutate(c, result[p], o[p])
           req == [attempt |-> attempt[p], resourceVersion |-> obj.resourceVersion,
                   landed |-> hist[p].landed]
       IN \E resp \in UpdateResponses(stored, obj) :
          /\ IF resp = "nil"
             THEN /\ deployment' = IF c = "edit-deploy"
                                      THEN Written(stored, obj) ELSE deployment
                  /\ clusterRole' = IF c = "edit-cr"
                                       THEN Written(stored, obj) ELSE clusterRole
                  /\ hist' = [Landed(hist) EXCEPT
                        ![p] = [hist[p] EXCEPT
                            !.updates = @ + 1, !.accepted = @ + 1,
                            !.namespaces = @ \cup Requested(p),
                            !.sent = <<req>>, !.before = <<stored>>,
                            !.after = <<Written(stored, obj)>>]]
             ELSE /\ UNCHANGED <<deployment, clusterRole>>
                  /\ hist' = [hist EXCEPT
                        ![p].updates = @ + 1, ![p].sent = <<req>>,
                        ![p].namespaces = @ \cup Requested(p),
                        ![p].conflicts = IF resp = "Conflict" THEN @ + 1 ELSE @]
          /\ AfterFn(p, IF resp = "nil" THEN <<>> ELSE <<resp>>)
    /\ result' = [result EXCEPT ![p] = NoObject]
    /\ UNCHANGED <<writes, cmdline, o>>

\* -------------------------------------------------------- other writers
\* They act on the object an invocation names, from the invocation's first
\* step to its end (what they wrote earlier is the initial store).
Named(c) ==
    \E p \in Procs : Running(p) /\ pc[p] # "Complete" /\ cmdline[p].cmd = c

\* A status-only write, or one spec field changed to its next value.
DeploymentEdits(d) ==
    {d, [d EXCEPT !.replicas = (@ + 1) % (MaxVal + 1)],
        [d EXCEPT !.revisionHistoryLimit = (@ + 1) % (MaxVal + 1)],
        [d EXCEPT !.paused = ~@]}

\* A metadata-only write, one more rule, or the last rule removed.
ClusterRoleEdits(r) ==
    {r} \cup (IF Len(r.Rules) < MaxRules
                 THEN {[r EXCEPT !.Rules = Append(@, OtherRule)]} ELSE {})
        \cup (IF Len(r.Rules) > 0
                 THEN {[r EXCEPT !.Rules = SubSeq(@, 1, Len(@) - 1)]} ELSE {})

OtherWriteDeployment ==
    /\ Named("edit-deploy")
    /\ deployment.exists
    /\ writes < MaxWrites
    /\ \E d \in DeploymentEdits(deployment) :
          deployment' = Written(deployment, d)
    /\ writes' = writes + 1
    /\ hist' = Landed(hist)
    /\ UNCHANGED <<clusterRole, cmdline, o, pc, attempt, result, outcome>>

OtherWriteClusterRole ==
    /\ Named("edit-cr")
    /\ clusterRole.exists
    /\ writes < MaxWrites
    /\ \E r \in ClusterRoleEdits(clusterRole) :
          clusterRole' = Written(clusterRole, r)
    /\ writes' = writes + 1
    /\ hist' = Landed(hist)
    /\ UNCHANGED <<deployment, cmdline, o, pc, attempt, result, outcome>>

OtherDeleteDeployment ==
    /\ Named("edit-deploy")
    /\ deployment.exists
    /\ deployment' = NoDeployment
    /\ UNCHANGED <<clusterRole, writes, cmdline, o, pc, attempt, result, outcome, hist>>

OtherDeleteClusterRole ==
    /\ Named("edit-cr")
    /\ clusterRole.exists
    /\ clusterRole' = NoClusterRole
    /\ UNCHANGED <<deployment, writes, cmdline, o, pc, attempt, result, outcome, hist>>

\* ------------------------------------------------------------------ Next
Next ==
    \/ \E p \in Procs : CompleteDeploy(p)
    \/ \E p \in Procs : CompleteCr(p)
    \/ \E p \in Procs : Validate(p)
    \/ \E p \in Procs : RunGet(p)
    \/ \E p \in Procs : RunUpdate(p)
    \/ OtherWriteDeployment
    \/ OtherWriteClusterRole
    \/ OtherDeleteDeployment
    \/ OtherDeleteClusterRole

Spec == Init /\ [][Next]_vars

\* A step of invocation p. Every call the tool makes is synchronous and
\* returns, so an invocation that can take a step takes one.
ToolStep(p) ==
    \/ CompleteDeploy(p)
    \/ CompleteCr(p)
    \/ Validate(p)
    \/ RunGet(p)
    \/ RunUpdate(p)

FairSpec == Spec /\ \A p \in Procs : WF_vars(ToolStep(p))

\* ------------------------------------------------- two invocations in a row
\* The caller runs the same command line twice, the second time after the
\* first returned; nobody else writes.
InitSeq ==
    /\ \E c \in {d \in DeployCmdLines \cup CrCmdLines : d.args = <<"web">>} :
          /\ cmdline = [p \in Procs |-> c]
          /\ IF c.cmd = "edit-deploy"
                THEN deployment \in Deployments /\ clusterRole = NoClusterRole
                ELSE deployment = NoDeployment /\ clusterRole \in ClusterRoles
    /\ writes = 0
    /\ o = [p \in Procs |-> NewCmdEdit(cmdline[p])]
    /\ pc = [p \in Procs |-> IF p = 1 THEN "Complete" ELSE "idle"]
    /\ attempt = [p \in Procs |-> 0]
    /\ result = [p \in Procs |-> NoObject]
    /\ outcome = [p \in Procs |-> NoOutcome]
    /\ hist = [p \in Procs |-> NoHist]

\* main of the next invocation starts once the previous process has exited.
StartNext(p) ==
    /\ pc[p] = "idle"
    /\ cmdline[p].cmd # "none"
    /\ \A q \in Procs : q < p => pc[q] = "done"
    /\ pc' = [pc EXCEPT ![p] = "Complete"]
    /\ UNCHANGED <<deployment, clusterRole, writes, cmdline, o, attempt, result,
                   outcome, hist>>

NextSeq ==
    \/ \E p \in Procs : ToolStep(p)
    \/ \E p \in Procs : StartNext(p)

SpecSeq == InitSeq /\ [][NextSeq]_vars

\* ------------------------------------------ two edit-cr invocations at once
\* Two callers run edit-cr on the same ClusterRole at the same time, each
\* with flags of their own; nobody else writes.
InitTwo ==
    /\ cmdline \in [Procs -> {c \in CrCmdLines : c.args = <<"web">>}]
    /\ deployment = NoDeployment
    /\ clusterRole \in ClusterRoles
    /\ writes = 0
    /\ o = [p \in Procs |-> NewCmdEdit(cmdline[p])]
    /\ pc = [p \in Procs |-> "Complete"]
    /\ attempt = [p \in Procs |-> 0]
    /\ result = [p \in Procs |-> NoObject]
    /\ outcome = [p \in Procs |-> NoOutcome]
    /\ hist = [p \in Procs |-> NoHist]

NextTwo ==
    \/ \E p \in Procs : CompleteCr(p)
    \/ \E p \in Procs : Validate(p)
    \/ \E p \in Procs : RunGet(p)
    \/ \E p \in Procs : RunUpdate(p)

SpecTwo == InitTwo /\ [][NextTwo]_vars

\* ----------------------------------- edit-deploy in both of its builds
\* One invocation of edit-deploy, built from edit_deploy or from part_000,
\* with or without --namespace, under a context with or without a namespace;
\* the Deployment lives in one of the cluster's namespaces.
NamespaceFlags == {"", "ns1"}
ContextNamespaces == {"", "team-a"}
ClusterNamespaces == {"default", "ns1", "team-a"}

BuildCmdLines ==
    [cmd : {"edit-deploy"}, args : {<<"web">>}, replicas : IntFlags, rhl : IntFlags,
     verbs : {NotPassed}, resources : {NotPassed}, groups : {NotPassed},
     namespace : NamespaceFlags, context : ContextNamespaces,
     build : {"edit_deploy", "part_000"}]

InitBuilds ==
    /\ \E c \in BuildCmdLines :
          cmdline = [p \in Procs |-> IF p = 1 THEN c ELSE NoCmdLine]
    /\ \E d \in Deployments, ns \in ClusterNamespaces :
          deployment = [d EXCEPT !.namespace = ns]
    /\ clusterRole = NoClusterRole
    /\ writes = 0
    /\ o = [p \in Procs |-> NewCmdEdit(cmdline[p])]
    /\ pc = [p \in Procs |-> IF p = 1 THEN "Complete" ELSE "idle"]
    /\ attempt = [p \in Procs |-> 0]
    /\ result = [p \in Procs |-> NoObject]
    /\ outcome = [p \in Procs |-> NoOutcome]
    /\ hist = [p \in Procs |-> NoHist]

NextBuilds ==
    \/ \E p \in Procs : CompleteDeploy(p)
    \/ \E p \in Procs : Validate(p)
    \/ \E p \in Procs : RunGet(p)
    \/ \E p \in Procs : RunUpdate(p)

SpecBuilds == InitBuilds /\ [][NextBuilds]_vars

\* ============================================================ properties
Done(p) == pc[p] = "done"

Success(p) == Done(p) /\ outcome[p] \in {UpdatedDeployment, UpdatedClusterRoles}

Failure(p) == Done(p) /\ ~Success(p)

Mentions(out, word) == \E i \in DOMAIN out : out[i] = word

\* The store failed a request of the invocation for a reason of its own.
Faulted(p) == Mentions(outcome[p], "Other")

ValidationErrors ==
    {<<"deployment name not specified">>, <<"ClusterRole name not specified">>,
     <<"only one argument is allowed">>, <<"invalid number of replicas">>,
     <<"invalid value of RevisionHistoryLimit">>, <<"verb feild is empty">>,
     <<"resource feild is empty">>}

OneName(p) == Len(cmdline[p].args) = 1 /\ cmdline[p].args[1] # ""

\* edit-deploy <name> --replicas=N with N > 0 and no --rhl.
OnlyReplicas(p) ==
    /\ cmdline[p].cmd = "edit-deploy"
    /\ OneName(p)
    /\ cmdline[p].replicas # NotPassed
    /\ cmdline[p].replicas[1] > 0
    /\ cmdline[p].rhl = NotPassed

\* C1: with no other writer and a store that answers, edit-deploy with only
\* --replicas=N (N > 0) on an existing Deployment ends successfully; the stored
\* object is the one from before the call with replicas = N, its
\* revisionHistoryLimit and every other field as before.
C1_OnlyReplicas ==
    \A p \in Procs :
        (OnlyReplicas(p) /\ Done(p) /\ writes = 0 /\ deployment.exists /\ ~Faulted(p))
        => /\ Success(p)
           /\ hist[p].before[1].resourceVersion = 0
           /\ deployment =
                [hist[p].before[1] EXCEPT !.replicas = cmdline[p].replicas[1],
                                          !.resourceVersion = 1]

C1_Witness ==
    \E p \in Procs :
        /\ OnlyReplicas(p) /\ Success(p) /\ writes = 0
        /\ cmdline[p].replicas[1] = 2
        /\ hist[p].before[1].replicas = 1
        /\ hist[p].before[1].revisionHistoryLimit = 2
        /\ deployment.replicas = 2
        /\ deployment.revisionHistoryLimit = 2

\* C2: in edit-deploy the update request carries, for a field the caller did
\* not pass, the value of that field in the object the same attempt fetched.
C2_UnspecifiedFromFetch ==
    \A p \in Procs :
        (cmdline[p].cmd = "edit-deploy" /\ pc[p] = "Update")
        => LET req == Mutate(cmdline[p].cmd, result[p], o[p]) IN
           /\ cmdline[p].rhl = NotPassed
                => req.revisionHistoryLimit = result[p].revisionHistoryLimit
           /\ cmdline[p].replicas = NotPassed
                => req.replicas = result[p].replicas

\* C3: k < 5 conflicts, a store that answers and an object that stays: the
\* invocation succeeds on attempt k + 1, the stored object is the tool's
\* mutation of the object stored just before (the latest writer's), and what
\* the tool does not assign (paused, the earlier rules) is as that writer left it.
C3_ConflictConvergence ==
    \A p \in Procs :
        (Done(p) /\ attempt[p] >= 1 /\ hist[p].conflicts < 5
            /\ Target(p).exists /\ ~Faulted(p))
        => /\ Success(p)
           /\ attempt[p] = hist[p].conflicts + 1
           /\ LET b == hist[p].before[1]
                  a == hist[p].after[1]
              IN /\ a = Written(b, Mutate(cmdline[p].cmd, b, o[p]))
                 /\ cmdline[p].cmd = "edit-deploy"
                      => /\ a.paused = b.paused
                         /\ a.replicas = o[p].newReplicas
                         /\ a.revisionHistoryLimit = o[p].newRhl
                 /\ cmdline[p].cmd = "edit-cr"
                      => /\ SubSeq(a.Rules, 1, Len(b.Rules)) = b.Rules
                         /\ Len(a.Rules) = Len(b.Rules) + 1

C3_Witness ==
    \E p \in Procs :
        /\ Success(p) /\ hist[p].conflicts = 4 /\ attempt[p] = 5
        /\ cmdline[p].cmd = "edit-deploy"
        /\ hist[p].before[1].paused
        /\ hist[p].after[1].paused

\* C4: five update attempts all answered with a conflict: the invocation has
\* ended after the fifth attempt with a failure, and none of its updates was
\* ever applied to the store.
C4_ConflictExhaustion ==
    \A p \in Procs :
        hist[p].conflicts >= 5
        => /\ Failure(p)
           /\ outcome[p] = <<"update failed", "Conflict">>
           /\ attempt[p] = 5 /\ hist[p].updates = 5
           /\ hist[p].accepted = 0
           /\ hist[p].after = <<>>

C4_Witness ==
    \E p \in Procs : hist[p].conflicts = 5 /\ Failure(p) /\ hist[p].accepted = 0

\* C5: an update request carries the resourceVersion the Get of the same
\* attempt returned, and the store accepts it only when no other write landed
\* after that Get.
C5_SameAttemptVersion ==
    \A p \in Procs :
        hist[p].sent # <<>>
        => /\ hist[p].fetched # <<>>
           /\ hist[p].sent[1].attempt = hist[p].fetched[1].attempt
           /\ hist[p].sent[1].resourceVersion = hist[p].fetched[1].resourceVersion
           /\ hist[p].accepted > 0 => hist[p].sent[1].landed = 0

C5_Witness ==
    \E p \in Procs :
        /\ hist[p].sent # <<>>
        /\ hist[p].sent[1].attempt = 3
        /\ hist[p].sent[1].resourceVersion >= 2
        /\ hist[p].accepted = 1

\* C6: success goes with exactly one accepted update and failure with none,
\* and after an accepted update the invocation issues no request.
C6_OneAcceptedUpdate ==
    /\ [](\A p \in Procs :
            /\ Success(p) => hist[p].accepted = 1
            /\ Failure(p) => hist[p].accepted = 0
            /\ hist[p].accepted <= 1)
    /\ [][\A p \in Procs :
            hist[p].accepted >= 1
            => /\ hist'[p].gets = hist[p].gets
               /\ hist'[p].updates = hist[p].updates]_vars

C6_Witness ==
    \E p \in Procs :
        Success(p) /\ hist[p].accepted = 1 /\ hist[p].conflicts = 2

\* C7: after a successful edit-cr the stored rules are the rules stored just
\* before the accepted update followed by the one new rule, whatever the
\* number of conflicted attempts before.
C7_AppendOneRule ==
    \A p \in Procs :
        (cmdline[p].cmd = "edit-cr" /\ Success(p))
        => /\ hist[p].after[1].Rules =
                Append(hist[p].before[1].Rules,
                       [Verbs |-> Split(cmdline[p].verbs),
                        Resources |-> Split(cmdline[p].resources),
                        APIGroups |-> Split(cmdline[p].groups)])
           /\ clusterRole = hist[p].after[1]

C7_Witness ==
    \E p \in Procs :
        /\ cmdline[p].cmd = "edit-cr" /\ Success(p)
        /\ hist[p].conflicts = 2
        /\ cmdline[p].verbs = <<"g", Comma, "l">>
        /\ cmdline[p].groups = <<>>
        /\ hist[p].before[1].Rules = <<OtherRule, OtherRule>>
        /\ clusterRole.Rules =
             <<OtherRule, OtherRule,
               [Verbs |-> << <<"g">>, <<"l">> >>, Resources |-> << <<"p">> >>,
                APIGroups |-> << <<>> >>]>>

\* C8: in edit-deploy a validation failure is reported before any request.
C8_ValidationBeforeRequests ==
    \A p \in Procs :
        (cmdline[p].cmd = "edit-deploy" /\ outcome[p] \in ValidationErrors)
        => hist[p].gets = 0 /\ hist[p].updates = 0

\* --replicas passed with a value <= 0, or --rhl passed with a value < 0.
InvalidFlag(p) ==
    \/ cmdline[p].replicas # NotPassed /\ cmdline[p].replicas[1] <= 0
    \/ cmdline[p].rhl # NotPassed /\ cmdline[p].rhl[1] < 0

\* C9: edit-deploy with an explicit --replicas <= 0 or --rhl < 0, on an object
\* that exists and a store that answers, ends with a validation error and has
\* no update accepted.
C9_InvalidFlagRejected ==
    \A p \in Procs :
        (cmdline[p].cmd = "edit-deploy" /\ OneName(p) /\ InvalidFlag(p))
        => /\ hist[p].accepted = 0
           /\ (Done(p) /\ deployment.exists /\ ~Faulted(p))
                => outcome[p] \in ValidationErrors

\* C10: with a store that answers, "update failed" is reported only for an
\* exhausted retry budget, and an
\* object that does not exist is reported otherwise than as "update failed";
\* a validation failure is a third outcome.
C10_DistinctOutcomes ==
    \A p \in Procs :
        (Done(p) /\ ~Faulted(p))
        => /\ Mentions(outcome[p], "update failed") => hist[p].conflicts = 5
           /\ Mentions(outcome[p], "NotFound")
                => ~Mentions(outcome[p], "update failed")
           /\ outcome[p] \in ValidationErrors
                => /\ ~Mentions(outcome[p], "update failed")
                   /\ ~Mentions(outcome[p], "NotFound")

\* C11: in the retry loop a Get that fails, and an update that fails otherwise
\* than with a conflict, end the invocation in that step; only a conflict
\* leads to another attempt; an ended invocation issues no request.
C11_FailFast ==
    [][\A p \in Procs :
        /\ (pc[p] = "Get" /\ hist'[p].gets = hist[p].gets + 1
                /\ hist'[p].fetched = <<>>)
             => Failure(p)'
        /\ (pc[p] = "Update" /\ hist'[p].updates = hist[p].updates + 1
                /\ hist'[p].accepted = hist[p].accepted
                /\ hist'[p].conflicts = hist[p].conflicts)
             => Failure(p)'
        /\ (pc[p] = "Update" /\ pc'[p] = "Get")
             => /\ hist'[p].conflicts = hist[p].conflicts + 1
                /\ attempt'[p] = attempt[p] + 1
        /\ Done(p)
             => /\ hist'[p].gets = hist[p].gets
                /\ hist'[p].updates = hist[p].updates]_vars

C11_Witness ==
    \E p \in Procs :
        /\ Failure(p) /\ hist[p].conflicts = 2 /\ attempt[p] = 3
        /\ outcome[p] = <<"update failed">> \o GetFailed("NotFound")
        /\ hist[p].updates = 2

\* C15: edit-cr with other than one positional argument, with empty verbs or
\* with empty resources ends with a validation error and issues no request;
\* none of its updates is applied; with one name, verbs and resources, empty
\* groups pass validation.
C15_CrValidation ==
    \A p \in Procs :
        cmdline[p].cmd = "edit-cr"
        => /\ (Len(cmdline[p].args) # 1 \/ cmdline[p].verbs = <<>>
                 \/ cmdline[p].resources = <<>>)
                => /\ pc[p] \in {"Complete", "Validate", "done"}
                   /\ Done(p) => outcome[p] \in ValidationErrors
                   /\ hist[p].gets = 0 /\ hist[p].updates = 0
                   /\ hist[p].accepted = 0
           /\ (OneName(p) /\ cmdline[p].verbs # <<>> /\ cmdline[p].resources # <<>>)
                => outcome[p] \notin ValidationErrors

C15_Witness ==
    \E p \in Procs :
        /\ cmdline[p].cmd = "edit-cr" /\ OneName(p)
        /\ cmdline[p].verbs = <<>> /\ cmdline[p].resources # <<>>
        /\ outcome[p] = <<"verb feild is empty">>
        /\ clusterRole.exists /\ hist[p].gets = 0

\* C17: edit-deploy with only --rhl=M (M >= 0), no other writer and a store
\* that answers, succeeds on every existing Deployment and leaves the stored
\* replicas as they were.
C17_OnlyRhl ==
    \A p \in Procs :
        (cmdline[p].cmd = "edit-deploy" /\ OneName(p)
            /\ cmdline[p].replicas = NotPassed
            /\ cmdline[p].rhl # NotPassed /\ cmdline[p].rhl[1] >= 0
            /\ Done(p) /\ writes = 0 /\ deployment.exists /\ ~Faulted(p))
        => /\ Success(p)
           /\ deployment.replicas = hist[p].before[1].replicas

\* Gets issued by the retry loop: edit-deploy's Complete issued one before.
LoopGets(p) ==
    hist[p].gets - (IF cmdline[p].cmd = "edit-deploy" THEN 1 ELSE 0)

\* C16: whatever other writers do, every invocation ends, after at most 5
\* calls of the retried function, each one Get followed by at most one update.
C16_Termination ==
    /\ [](\A p \in Procs :
            /\ attempt[p] <= 5
            /\ pc[p] = "Get"
                 => LoopGets(p) = attempt[p] - 1 /\ hist[p].updates = attempt[p] - 1
            /\ pc[p] = "Update"
                 => LoopGets(p) = attempt[p] /\ hist[p].updates = attempt[p] - 1
            /\ (Done(p) /\ attempt[p] >= 1)
                 => /\ LoopGets(p) = attempt[p]
                    /\ hist[p].updates \in {attempt[p] - 1, attempt[p]}
            /\ attempt[p] = 0 => hist[p].updates = 0 /\ hist[p].gets <= 1)
    /\ <>(\A p \in Procs : ~Running(p))

C16_Witness ==
    \E p \in Procs :
        /\ Done(p) /\ attempt[p] = 5 /\ hist[p].updates = 5
        /\ hist[p].conflicts = 4 /\ writes = MaxWrites

\* C13: edit-deploy run twice in a row with the same --replicas=N, N > 0, on
\* a store that answers: both report success and the stored replicas are N
\* after the first and after the second.
C13_SameReplicasTwice ==
    (/\ \A p \in Procs : /\ cmdline[p].cmd = "edit-deploy"
                         /\ cmdline[p].replicas # NotPassed
                         /\ cmdline[p].replicas[1] > 0
                         /\ Done(p) /\ ~Faulted(p)
     /\ cmdline[1] = cmdline[2])
    => /\ \A p \in Procs : Success(p)
       /\ hist[1].after[1].replicas = cmdline[1].replicas[1]
       /\ hist[2].after[1].replicas = hist[1].after[1].replicas
       /\ deployment.replicas = cmdline[1].replicas[1]

C13_Witness ==
    /\ \A p \in Procs : cmdline[p].cmd = "edit-deploy" /\ Success(p)
    /\ cmdline[1].replicas = <<2>> /\ cmdline[2].replicas = <<2>>
    /\ hist[1].before[1].replicas = 1
    /\ hist[1].after[1].replicas = 2
    /\ hist[2].before[1] = hist[1].after[1]
    /\ deployment.replicas = 2 /\ deployment.resourceVersion = 2

\* The rule the flags of invocation p describe.
FlagRule(p) ==
    [Verbs |-> Split(cmdline[p].verbs), Resources |-> Split(cmdline[p].resources),
     APIGroups |-> Split(cmdline[p].groups)]

\* The rules stored before either of the two invocations wrote.
RulesBefore ==
    LET first == CHOOSE p \in Procs : hist[p].before[1].resourceVersion = 0
    IN hist[first].before[1].Rules

\* C14: two successful edit-cr with the same flags leave the rules two longer
\* than before the first, the last two being equal copies of the new rule.
C14_DuplicateRule ==
    (/\ \A p \in Procs : cmdline[p].cmd = "edit-cr" /\ Success(p)
     /\ cmdline[1] = cmdline[2])
    => /\ Len(clusterRole.Rules) = Len(RulesBefore) + 2
       /\ clusterRole.Rules = RulesBefore \o <<FlagRule(1), FlagRule(1)>>

C14_Witness ==
    /\ \A p \in Procs : Success(p)
    /\ cmdline[1] = cmdline[2]
    /\ cmdline[1].verbs = <<"g">> /\ cmdline[1].groups = <<"r">>
    /\ RulesBefore = <<OtherRule>>
    /\ Len(clusterRole.Rules) = 3
    /\ clusterRole.Rules[2] = clusterRole.Rules[3]
    /\ clusterRole.Rules[3].Verbs = << <<"g">> >>

\* C18: two concurrent edit-cr that both report success: the stored rules are
\* the rules before both followed by the new rule of each, once each, in the
\* order their updates were accepted.
C18_NoLostAppend ==
    (\A p \in Procs : cmdline[p].cmd = "edit-cr" /\ Success(p))
    => \E p, q \in Procs :
          /\ p # q
          /\ clusterRole.Rules = RulesBefore \o <<FlagRule(p), FlagRule(q)>>
          /\ hist[p].after[1].Rules = RulesBefore \o <<FlagRule(p)>>
          /\ hist[q].before[1] = hist[p].after[1]

C18_Witness ==
    /\ \A p \in Procs : Success(p)
    /\ hist[1].conflicts = 1 /\ hist[2].conflicts = 0
    /\ FlagRule(1) # FlagRule(2)
    /\ clusterRole.Rules = <<OtherRule, FlagRule(2), FlagRule(1)>>

\* The namespace the precedence of the specification names: the flag, else
\* the context's namespace, else "default".
ResolvedNamespace(c) ==
    IF c.namespace # "" THEN c.namespace
    ELSE IF c.context # "" THEN c.context
    ELSE "default"

\* C12: every get and update of an edit-deploy invocation names the namespace
\* of the flag, else of the context, else "default".
C12_NamespaceResolution ==
    \A p \in Procs :
        cmdline[p].cmd = "edit-deploy"
        => hist[p].namespaces \subseteq {ResolvedNamespace(cmdline[p])}

\* C19: in the build with isFlagPassed, a successful invocation with
\* --replicas=N, N > 0, has stored replicas N.
C19_PassedReplicasWritten ==
    \A p \in Procs :
        (/\ cmdline[p].build = "part_000"
         /\ cmdline[p].replicas # NotPassed
         /\ cmdline[p].replicas[1] > 0
         /\ Success(p))
        => /\ hist[p].after[1].replicas = cmdline[p].replicas[1]
           /\ deployment.replicas = cmdline[p].replicas[1]

====
